---- MODULE Spec2Model ----
(***************************************************************************)
(* Model of edinsights/core/decorators.py: the memoize_query decorator     *)
(* (key derivation, the three operating modes, the 'Processing' sentinel   *)
(* protocol over the shared Django cache) and the cron decorator that      *)
(* selects the mode of a periodic invocation.                              *)
(*                                                                         *)
(* Python values are represented by their repr: "None", "0", "1" and       *)
(* "'Processing'" (the str 'Processing').  Time is counted in seconds and  *)
(* advances in steps of TickSeconds.                                       *)
(***************************************************************************)
EXTENDS Integers, Sequences, FiniteSets, TLC

(***************************************************************************)
(* Bounds of the model.                                                    *)
(***************************************************************************)
\* longest positional argument list drawn for key derivation
MaxArgs == 1
\* number of calls made in one behaviour, by all callers together
MaxCalls == 2
\* number of calls in one behaviour when one function is called directly
MaxDirectCalls == 3
\* seconds that pass in one step of the clock
TickSeconds == 450

(***************************************************************************)
(* Python values.                                                          *)
(***************************************************************************)
\* the value of a failed cache.get, and of a function that returns nothing
None == "None"
\* the str constant of lines 177 and 197
Processing == "'Processing'"
\* bool(v) of `if results:` (line 213) and `if not results:` (line 234)
Truthy(v) == v \notin {"None", "0", "False", "''", "[]", "{}"}

\* str(type(a)) of the two classes ignored by default (line 131)
DatabaseType == "<class 'pymongo.database.Database'>"
OSFSType == "<class 'fs.osfs.OSFS'>"
IntType == "<type 'int'>"

\* argument values: str(type(a)) and repr(a)
DB1 == [type |-> DatabaseType, repr |-> "Database(c, u'edx1')"]
DB2 == [type |-> DatabaseType, repr |-> "Database(c, u'edx2')"]
I2 == [type |-> IntType, repr |-> "2"]
ArgValues == {DB1, DB2, I2}

(***************************************************************************)
(* memoize_query(cache_time, timeout, ignores, key_override): defaults.    *)
(***************************************************************************)
cache_time == 60 * 4

\* a timeout of half the time-to-live: the faulty variant that C18 rules
\* out
timeout_Short == cache_time \div 2

timeout == 60 * 15
ignores == {DatabaseType, OSFSType}
NoOverride == "<no key_override>"

(***************************************************************************)
(* The decorated functions.  argspec is inspect.getargspec(f) as read by   *)
(* compute_and_cache; memoized says whether memoize_query decorated the    *)
(* function (hasattr(func, 'force_memoize') of lines 113 and 125);         *)
(* force_memoize is the argument of the cron decorator around it, and      *)
(* params the call that optional_parameter_call builds from the params of  *)
(* that decorator.                                                         *)
(***************************************************************************)
NoKwargs == << >>
ParamsInv == [args |-> <<DB1, I2>>, kwargs |-> NoKwargs]

QueryA ==
    [name |-> "query_a", module |-> "modules.a.tasks",
     cache_time |-> cache_time, timeout |-> timeout,
     ignores |-> ignores, key_override |-> NoOverride,
     argspec |-> [args |-> TRUE, varargs |-> FALSE, keywords |-> FALSE],
     memoized |-> TRUE, force_memoize |-> FALSE, params |-> ParamsInv]

QueryB ==
    [name |-> "query_b", module |-> "modules.a.tasks",
     cache_time |-> cache_time, timeout |-> timeout,
     ignores |-> ignores, key_override |-> NoOverride,
     argspec |-> [args |-> TRUE, varargs |-> TRUE, keywords |-> TRUE],
     memoized |-> TRUE, force_memoize |-> TRUE, params |-> ParamsInv]

\* a cron job that is not decorated by memoize_query
Report ==
    [name |-> "report", module |-> "modules.a.tasks",
     cache_time |-> 0, timeout |-> 0,
     ignores |-> {}, key_override |-> NoOverride,
     argspec |-> [args |-> TRUE, varargs |-> FALSE, keywords |-> FALSE],
     memoized |-> FALSE, force_memoize |-> TRUE, params |-> ParamsInv]

Funcs == {QueryA, QueryB, Report}

\* for key derivation: a function with the same name as QueryA that another
\* module declares, and two functions decorated with
\* memoize_query(key_override="shared_key"), again with one name in two
\* modules
QueryA_b == [QueryA EXCEPT !.module = "modules.b.tasks"]
Shared_a == [QueryA EXCEPT !.name = "shared", !.key_override = "shared_key"]
Shared_b == [Shared_a EXCEPT !.module = "modules.b.tasks"]
Memoized == {f \in Funcs : f.memoized}
\* the functions whose three modes the application calls directly
Called == {QueryA}

(***************************************************************************)
(* Key derivation.                                                         *)
(***************************************************************************)
\* isuseful(a, ignores), lines 141-144
isuseful(a, ign) == ~(a.type \in ign)

\* [a for a in args if isuseful(a, ignores)], line 161
RECURSIVE FilterArgs(_, _)
FilterArgs(args, ign) ==
    IF args = << >> THEN << >>
    ELSE (IF isuseful(Head(args), ign) THEN <<Head(args)>> ELSE << >>)
         \o FilterArgs(Tail(args), ign)

(***************************************************************************)
(* kwargs is a Python 2 dict.  A call f(n1=v1, n2=v2) inserts the keywords *)
(* in call order into an empty table of 8 slots; a keyword goes to the     *)
(* first free slot of its probe sequence (slot = hash & 7, then            *)
(* i = 5*i + perturb + 1), and str(dict) lists the slots in index order.   *)
(* KwProbe holds the probe sequences of the keyword names used here, from  *)
(* the string hash of CPython 2: 'a' and 'i' both start at slot 0.  A      *)
(* kwargs value of the model is the sequence of <<name, value>> in call    *)
(* order.                                                                  *)
(***************************************************************************)
KwNames == {"a", "i"}
KwProbe == [a |-> <<0, 1, 5, 6>>, i |-> <<0, 1, 5, 1>>]
DictSlots == 0 .. 7
EmptyDict == [s \in DictSlots |-> << >>]

\* PyDict_SetItem of a new key: the first free slot of the probe sequence
DictInsert(table, item) ==
    LET probe == KwProbe[item[1]]
        free == {j \in 1 .. Len(probe) : table[probe[j]] = << >>}
        first == CHOOSE j \in free : \A k \in free : j <= k
    IN [table EXCEPT ![probe[first]] = item]

RECURSIVE DictOf(_, _)
DictOf(table, kwargs) ==
    IF kwargs = << >> THEN table
    ELSE DictOf(DictInsert(table, Head(kwargs)), Tail(kwargs))

RECURSIVE DictItems(_, _)
DictItems(table, slot) ==
    IF slot > 7 THEN << >>
    ELSE (IF table[slot] = << >> THEN << >> ELSE <<table[slot]>>)
         \o DictItems(table, slot + 1)

\* str(kwargs): the items in the order the dict lists them, values by repr
DictStr(kwargs) ==
    LET items == DictItems(DictOf(EmptyDict, kwargs), 0)
    IN [j \in 1 .. Len(items) |-> <<items[j][1], items[j][2].repr>>]

\* str(args) of a list: the repr of each element
ListStr(args) == [j \in 1 .. Len(args) |-> args[j].repr]

\* hashlib md4 hexdigest of s: taken to be free of collisions
hexdigest(s) == "md4(" \o s \o ")"

\* a dict without 'module': the faulty variant that C12 rules out
Canonical_NoModule(f, args, kwargs) ==
    ToString([uniquifier |-> "anevt.memoize",
              name |-> f.name,
              args |-> ListStr(FilterArgs(args, f.ignores)),
              kwargs |-> DictStr(kwargs)])

\* s of lines 158-162: the str of the dict that is hashed
Canonical(f, args, kwargs) ==
    ToString([uniquifier |-> "anevt.memoize",
              name |-> f.name,
              module |-> f.module,
              args |-> ListStr(FilterArgs(args, f.ignores)),
              kwargs |-> DictStr(kwargs)])

\* a key derivation that forgets key_override: the faulty variant that C11
\* rules out
make_cache_key_NoOverride(f, args, kwargs) ==
    hexdigest(Canonical(f, args, kwargs))

\* make_cache_key(f, args, kwargs), lines 146-168; ignores and key_override
\* are the arguments of the memoize_query call that decorated f
make_cache_key(f, args, kwargs) ==
    LET s == Canonical(f, args, kwargs)
    IN IF f.key_override # NoOverride THEN f.key_override ELSE hexdigest(s)

(***************************************************************************)
(* The shared cache (django.core.cache.cache).  An entry holds the value   *)
(* and the seconds it has left; kind records which line wrote it (177:     *)
(* "inprogress", 186: "complete") and is not readable by the program.      *)
(***************************************************************************)
Procs == {"p1", "p2"}
EngineInvs == {ParamsInv}
Keys == {make_cache_key(f, i.args, i.kwargs) : f \in Memoized, i \in EngineInvs}
NoKey == "<no key>"
NoValue == "<no value>"
Absent == [kind |-> "absent"]
FResults == {"0", "1", Processing}
FExceptions == {"ValueError"}
KeyError == "KeyError"

VARIABLES
    cache,  \* key -> entry
    call,   \* caller -> the call it is in (see Idle)
    calls,  \* calls begun so far
    kinv,   \* key derivation alone: two invocations
    kkey    \* and the keys derived for them

keyvars == <<kinv, kkey>>
vars == <<cache, call, calls, keyvars>>

\* cache.get(key): the value, or None when there is no live entry
CacheGet(c, k) == IF c[k].kind = "absent" THEN None ELSE c[k].val

\* cache.set(key, value, seconds)
CacheSet(c, k, v, seconds, kind) ==
    [c EXCEPT ![k] = [kind |-> kind, val |-> v, ttl |-> seconds]]

\* a store in which the sentinel never expires: the faulty variant that
\* C16 rules out
Aged_SentinelStays(c) ==
    [k \in DOMAIN c |->
        IF c[k].kind \in {"absent", "inprogress"} THEN c[k]
        ELSE IF c[k].ttl <= TickSeconds THEN Absent
        ELSE [c[k] EXCEPT !.ttl = c[k].ttl - TickSeconds]]

\* the entries after TickSeconds more seconds
Aged(c) ==
    [k \in DOMAIN c |->
        IF c[k].kind = "absent" THEN Absent
        ELSE IF c[k].ttl <= TickSeconds THEN Absent
        ELSE [c[k] EXCEPT !.ttl = c[k].ttl - TickSeconds]]

\* the keys whose entries expire in the next TickSeconds
Expiring(c) ==
    {k \in DOMAIN c : c[k].kind # "absent" /\ Aged(c)[k].kind = "absent"}

NoRet == [kind |-> "none", val |-> NoValue, exc |-> "", arg |-> ""]
Returned(v) == [kind |-> "returned", val |-> v, exc |-> "", arg |-> ""]
Raised(e, a) == [kind |-> "raised", val |-> NoValue, exc |-> e, arg |-> a]
NoPrev == [mode |-> "none"]
NoInv == [args |-> << >>, kwargs |-> << >>]

(***************************************************************************)
(* A caller between calls.  The fields of a call:                          *)
(*   pc         where the caller is                                        *)
(*   fn         the decorated function it called                           *)
(*   via        how it called: "direct", "mq_force_memoize",               *)
(*              "mq_force_retrieve", "periodic_task" (cron's task, run by  *)
(*              the scheduler) or "cron" (the cron-decorated function,     *)
(*              called by the code)                                        *)
(*   mode       the opmode_* function that runs                            *)
(*   inv        args and kwargs of the call                                *)
(*   key        key of the opmode function                                 *)
(*   cached     cached of get_from_cache_if_possible                       *)
(*   results    results of the opmode function and of compute_and_cache    *)
(*   fargs      what compute_and_cache passed to f                         *)
(*   ret        what the call returned or raised                           *)
(* and, kept for the properties only:                                      *)
(*   nexec      executions of f in this call                               *)
(*   fout       what f returned or raised in this call                     *)
(*   startEntry kind of the key's entry when the call began                *)
(*   firstEntry kind of the key's entry at the call's first cache.get      *)
(*   lastEntry  kind of the entry at its latest cache.get                  *)
(*   joined     whether a default-mode call began while another            *)
(*              default-mode call on its key was at work                   *)
(*   disturbed  what happened to the key of a default-mode call since it   *)
(*              began: "default" (a cache operation of another caller in   *)
(*              default mode), "forced" (a cache.set of another caller in  *)
(*              force-recompute mode), "retrieved" (a cache.get of another *)
(*              caller in force-retrieve mode), "expired" (the entry       *)
(*              expired)                                                   *)
(*   owns       whether the key's entry is the one this call wrote last    *)
(*   waited     seconds since the caller, now in the loop of line 197,     *)
(*              entered it (counted up to the timeout)                     *)
(*   prev       the caller's previous call, if that was a default-mode     *)
(*              call that returned undisturbed, and the key's entry was    *)
(*              left alone since                                           *)
(***************************************************************************)
Idle ==
    [pc |-> "idle", fn |-> QueryA, via |-> "none", mode |-> "none",
     inv |-> NoInv, key |-> NoKey, cached |-> NoValue, results |-> NoValue,
     fargs |-> NoInv, ret |-> NoRet, nexec |-> 0, fout |-> NoRet,
     startEntry |-> "none", firstEntry |-> "unread", lastEntry |-> "unread",
     joined |-> FALSE, disturbed |-> {}, owns |-> FALSE, waited |-> 0,
     prev |-> NoPrev]

Active(p) == call[p].pc \notin {"idle", "done"}

\* a caller's record s once the entry of key k was read or written by
\* another caller, or expired (how says which), and was overwritten or
\* not
Disturbed(s, k, how, wrote) ==
    IF s.pc = "idle"
    THEN (IF s.prev # NoPrev /\ s.prev.key = k
          THEN [s EXCEPT !.prev = NoPrev] ELSE s)
    ELSE IF s.key = k
    THEN [s EXCEPT !.disturbed = IF s.mode = "opmode_default"
                                 THEN @ \cup {how} ELSE @,
                   !.owns = @ /\ ~wrote]
    ELSE s

\* how a cache operation of a caller in mode m counts for the others
How(m) ==
    CASE m = "opmode_default" -> "default"
      [] m = "opmode_forcememoize" -> "forced"
      [] OTHER -> "retrieved"

\* a cache operation of p on key k that leaves p in r
CacheOp(p, r, k, wrote) ==
    call' = [q \in Procs |->
                IF q = p THEN r
                ELSE Disturbed(call[q], k, How(r.mode), wrote)]

\* a step of p that touches nothing shared
Local(p, r) == call' = [call EXCEPT ![p] = r]

(***************************************************************************)
(* get_from_cache_if_possible and what the opmode function does with its   *)
(* result.                                                                 *)
(***************************************************************************)
\* a loop that never waits: the faulty variant that C2 rules out
StillProcessing_NoWait(c) == FALSE

\* while cached == 'Processing', line 197
StillProcessing(c) == c = Processing

\* a default mode that recomputes whatever it read: the faulty variant
\* that C14 rules out
CacheHit_Never(r) == FALSE

\* if results, line 213
CacheHit(r) == Truthy(r)

\* `if results == False`: the faulty variant that C4 rules out
NotFound_IsFalse(r) == r = "False"

\* if not results, line 234
NotFound(r) == ~Truthy(r)

\* a default mode that calls f on a miss without compute_and_cache's
\* first cache.set: the faulty variant that C17 rules out
AfterGet_NoSentinel(m, c, k) ==
    IF StillProcessing(c)
    THEN [pc |-> "poll", results |-> NoValue, ret |-> NoRet]
    ELSE IF m = "opmode_default"
    THEN (IF CacheHit(c)
          THEN [pc |-> "done", results |-> c, ret |-> Returned(c)]
          ELSE [pc |-> "call_f", results |-> c, ret |-> NoRet])
    ELSE (IF NotFound(c)
          THEN [pc |-> "done", results |-> c, ret |-> Raised(KeyError, k)]
          ELSE [pc |-> "done", results |-> c, ret |-> Returned(c)])

\* after a cache.get that read c: stay in the loop, or leave it with
\* results = cached and go on in the opmode function (lines 203-204,
\* 213-219, 234-236)
AfterGet(m, c, k) ==
    IF StillProcessing(c)
    THEN [pc |-> "poll", results |-> NoValue, ret |-> NoRet]
    ELSE IF m = "opmode_default"
    THEN (IF CacheHit(c)
          THEN [pc |-> "done", results |-> c, ret |-> Returned(c)]
          ELSE [pc |-> "set_processing", results |-> c, ret |-> NoRet])
    ELSE (IF NotFound(c)
          THEN [pc |-> "done", results |-> c, ret |-> Raised(KeyError, k)]
          ELSE [pc |-> "done", results |-> c, ret |-> Returned(c)])

\* the caller's record r after one cache.get(key) on cache c
AfterRead(c, r) ==
    LET v == CacheGet(c, r.key)
        next == AfterGet(r.mode, v, r.key)
    IN [r EXCEPT !.cached = v,
                 !.pc = next.pc,
                 !.results = next.results,
                 !.ret = next.ret,
                 !.firstEntry = IF @ = "unread" THEN c[r.key].kind ELSE @,
                 !.lastEntry = c[r.key].kind,
                 !.waited = IF next.pc = "poll" THEN @ ELSE 0]

\* cached = cache.get(key); time.sleep(0.1), lines 198-199
Poll(p) ==
    /\ call[p].pc = "poll"
    /\ CacheOp(p, AfterRead(cache, call[p]), call[p].key, FALSE)
    /\ UNCHANGED <<cache, calls, keyvars>>

(***************************************************************************)
(* compute_and_cache.                                                      *)
(***************************************************************************)
\* the caller's record after cache.set(key, 'Processing', timeout), line 177
AfterSetProcessing(r) ==
    [r EXCEPT !.pc = "call_f", !.owns = TRUE]

\* cache.set(key, 'Processing', timeout) after a miss in default mode
SetProcessing(p) ==
    /\ call[p].pc = "set_processing"
    /\ cache' = CacheSet(cache, call[p].key, Processing, call[p].fn.timeout,
                         "inprogress")
    /\ CacheOp(p, AfterSetProcessing(call[p]), call[p].key, TRUE)
    /\ UNCHANGED <<calls, keyvars>>

\* the arguments f gets, lines 178-185; an undecorated f is called as is
FCall(f, i) ==
    IF ~f.memoized THEN i
    ELSE IF f.argspec.varargs \/ f.argspec.args
    THEN (IF f.argspec.keywords THEN i
          ELSE [args |-> i.args, kwargs |-> NoKwargs])
    ELSE NoInv

\* f returns v
CallF(p, v) ==
    /\ call[p].pc = "call_f"
    /\ Local(p, [call[p] EXCEPT
                    !.fargs = FCall(call[p].fn, call[p].inv),
                    !.nexec = @ + 1,
                    !.fout = Returned(v),
                    !.results = v,
                    !.pc = IF call[p].mode = "undecorated"
                           THEN "done" ELSE "set_results",
                    !.ret = IF call[p].mode = "undecorated"
                            THEN Returned(v) ELSE @])
    /\ UNCHANGED <<cache, calls, keyvars>>

\* cache.delete(key) on the way out: the faulty variant that C7 rules out
OnRaise_Rollback(c, k) == [c EXCEPT ![k] = Absent]

\* what compute_and_cache does to the cache when f raises: nothing (there
\* is no try around lines 181-185)
OnRaise(c, k) == c

\* what the caller gets when f raises e: e itself
Propagated(e) == Raised(e, "")

\* f raises e: the exception leaves compute_and_cache and the opmode
\* function
FRaise(p, e) ==
    /\ call[p].pc = "call_f"
    /\ Local(p, [call[p] EXCEPT
                    !.fargs = FCall(call[p].fn, call[p].inv),
                    !.nexec = @ + 1,
                    !.fout = Raised(e, ""),
                    !.pc = "done",
                    !.ret = Propagated(e)])
    /\ cache' = IF call[p].mode = "undecorated" THEN cache
                ELSE OnRaise(cache, call[p].key)
    /\ UNCHANGED <<calls, keyvars>>

\* cache.set(key, results, cache_time); return results, lines 186-187
SetResults(p) ==
    /\ call[p].pc = "set_results"
    /\ cache' = CacheSet(cache, call[p].key, call[p].results,
                         call[p].fn.cache_time, "complete")
    /\ CacheOp(p, [call[p] EXCEPT !.pc = "done",
                                  !.ret = Returned(call[p].results),
                                  !.owns = TRUE],
               call[p].key, TRUE)
    /\ UNCHANGED <<calls, keyvars>>

(***************************************************************************)
(* The ways into a function: the decorated function itself, the two        *)
(* attributes that mq_force_memoize and mq_force_retrieve fetch, and the   *)
(* run function of cron.  Each gives the opmode function that runs.        *)
(***************************************************************************)
\* decfun = decorator(opmode_default, f), line 238
decfun(func) ==
    IF func.memoized THEN "opmode_default" ELSE "undecorated"

\* `return func` in both branches: the faulty variant that C3 rules out
mq_force_memoize_ReturnsFunc(func) == decfun(func)

\* lines 113-116: func.force_memoize if func has it, else func
mq_force_memoize(func) ==
    IF func.memoized THEN "opmode_forcememoize" ELSE "undecorated"

\* func.force_memoize fetched by mistake: the faulty variant that
\* C6 rules out
mq_force_retrieve_WrongAttr(func) == mq_force_memoize(func)

\* lines 125-128: func.force_retrieve if func has it, else func
mq_force_retrieve(func) ==
    IF func.memoized THEN "opmode_forceretrieve" ELSE "undecorated"

\* force_memoize applied whoever calls: the faulty variant that C8
\* rules out
run_IgnoresOrigin(f, called_as_periodic) ==
    IF f.force_memoize THEN mq_force_memoize(f) ELSE decfun(f)

\* run of cron, lines 259-271: called_as_periodic is "func is None"
run(f, called_as_periodic) ==
    IF called_as_periodic
    THEN (IF f.force_memoize THEN mq_force_memoize(f) ELSE decfun(f))
    ELSE decfun(f)

\* the record of caller p as it enters f through v, in mode m, with
\* arguments i; key is line 211, 224 or 231
Entered(p, f, v, m, i) ==
    LET k == IF f.memoized THEN make_cache_key(f, i.args, i.kwargs)
             ELSE NoKey
    IN [Idle EXCEPT
           !.fn = f, !.via = v, !.mode = m, !.inv = i, !.key = k,
           !.startEntry = IF f.memoized THEN cache[k].kind ELSE "none",
           !.joined = /\ m = "opmode_default"
                      /\ \E q \in Procs \ {p} :
                            /\ Active(q)
                            /\ call[q].mode = "opmode_default"
                            /\ call[q].key = k,
           !.prev = IF /\ m = "opmode_default"
                       /\ call[p].prev # NoPrev
                       /\ call[p].prev.fn = f.name
                       /\ call[p].prev.inv = i
                    THEN call[p].prev ELSE NoPrev]

\* caller p enters and does the first cache operation of its mode: the
\* cache.get of line 194 in get_from_cache_if_possible, in
\* opmode_default and opmode_forceretrieve, the cache.set of line 177 in
\* opmode_forcememoize; an undecorated function has none
Start(p, f, v, m, i) ==
    /\ call[p].pc = "idle"
    /\ calls' = calls + 1
    /\ LET r == Entered(p, f, v, m, i)
       IN CASE m \in {"opmode_default", "opmode_forceretrieve"} ->
                  /\ CacheOp(p, AfterRead(cache, r), r.key, FALSE)
                  /\ cache' = cache
            [] m = "opmode_forcememoize" ->
                  /\ cache' = CacheSet(cache, r.key, Processing, f.timeout,
                                       "inprogress")
                  /\ CacheOp(p, AfterSetProcessing(r), r.key, TRUE)
            [] OTHER ->
                  /\ Local(p, [r EXCEPT !.pc = "call_f"])
                  /\ cache' = cache
    /\ UNCHANGED keyvars

\* f(*args, **kwargs)
CallDefault(p, f, i) == Start(p, f, "direct", decfun(f), i)

\* mq_force_memoize(f)(*args, **kwargs)
CallForceMemoize(p, f, i) ==
    Start(p, f, "mq_force_memoize", mq_force_memoize(f), i)

\* mq_force_retrieve(f)(*args, **kwargs)
CallForceRetrieve(p, f, i) ==
    Start(p, f, "mq_force_retrieve", mq_force_retrieve(f), i)

\* the scheduler runs the periodic task of f, or the code calls the
\* cron-decorated f; either way f gets params (line 273)
CronRun(p, f, called_as_periodic) ==
    Start(p, f, IF called_as_periodic THEN "periodic_task" ELSE "cron",
          run(f, called_as_periodic), f.params)

(***************************************************************************)
(* Time and the caller's return.                                           *)
(***************************************************************************)
\* a caller's record s after TickSeconds more seconds
Later(s) ==
    IF s.pc = "poll"
    THEN [s EXCEPT !.waited = IF @ + TickSeconds >= s.fn.timeout
                              THEN s.fn.timeout ELSE @ + TickSeconds]
    ELSE s

\* TickSeconds go by: entries lose them, and those with none left are gone
Tick ==
    /\ \E k \in DOMAIN cache : cache[k].kind # "absent"
    /\ cache' = Aged(cache)
    /\ call' = [q \in Procs |->
                  IF call[q].pc = "idle"
                  THEN (IF /\ call[q].prev # NoPrev
                           /\ call[q].prev.key \in Expiring(cache)
                        THEN [call[q] EXCEPT !.prev = NoPrev] ELSE call[q])
                  ELSE Later(IF call[q].key \in Expiring(cache)
                             THEN Disturbed(call[q], call[q].key, "expired",
                                            TRUE)
                             ELSE call[q])]
    /\ UNCHANGED <<calls, keyvars>>

\* what is kept of a call for the caller's next one
Summary(s) ==
    IF /\ s.mode = "opmode_default"
       /\ s.ret.kind = "returned"
       /\ s.disturbed = {}
    THEN [fn |-> s.fn.name, inv |-> s.inv, key |-> s.key,
          val |-> s.ret.val,
          nexec |-> s.nexec + (IF s.prev = NoPrev THEN 0 ELSE s.prev.nexec)]
    ELSE NoPrev

\* a default-mode call that is over while another one on its key is not:
\* its record is kept until both are over
Racing(p) ==
    /\ call[p].mode = "opmode_default"
    /\ \E q \in Procs \ {p} :
          /\ Active(q)
          /\ call[q].mode = "opmode_default"
          /\ call[q].key = call[p].key

\* the caller has its result and is free for another call
Forget(p) ==
    /\ call[p].pc = "done"
    /\ ~Racing(p)
    /\ Local(p, [Idle EXCEPT !.prev = Summary(call[p])])
    /\ UNCHANGED <<cache, calls, keyvars>>

Settled == \A p \in Procs : call[p].pc = "done" => Racing(p)

Init ==
    /\ cache = [k \in Keys |-> Absent]
    /\ call = [p \in Procs |-> Idle]
    /\ calls = 0
    /\ kinv = << >>
    /\ kkey = << >>

\* a caller that is over is forgotten before anything else happens, unless
\* it is kept as one of two racing callers
Open == Settled /\ calls < MaxCalls

Next ==
    \/ \E p \in Procs : Forget(p)
    \/ Open /\ \E p \in Procs, f \in Called, i \in EngineInvs :
                  CallDefault(p, f, i)
    \/ Open /\ \E p \in Procs, f \in Called, i \in EngineInvs :
                  CallForceMemoize(p, f, i)
    \/ Open /\ \E p \in Procs, f \in Called, i \in EngineInvs :
                  CallForceRetrieve(p, f, i)
    \/ Open /\ \E p \in Procs, f \in Funcs, per \in BOOLEAN :
                  CronRun(p, f, per)
    \/ Settled /\ \E p \in Procs : Poll(p)
    \/ Settled /\ \E p \in Procs : SetProcessing(p)
    \/ Settled /\ \E p \in Procs, v \in FResults : CallF(p, v)
    \/ Settled /\ \E p \in Procs, e \in FExceptions : FRaise(p, e)
    \/ Settled /\ \E p \in Procs : SetResults(p)
    \/ Settled /\ Tick

Spec == Init /\ [][Next]_vars

(***************************************************************************)
(* The three modes of one function, called directly: MaxDirectCalls calls. *)
(* Here a caller in the loop of line 197, which sleeps 0.1 s between two   *)
(* reads, is not overtaken by the clock: no TickSeconds go by while its    *)
(* next cache.get would end the loop.                                      *)
(***************************************************************************)
OpenDirect == Settled /\ calls < MaxDirectCalls

Prompt ==
    \A p \in Procs :
        call[p].pc = "poll" => StillProcessing(CacheGet(cache, call[p].key))

NextDirect ==
    \/ \E p \in Procs : Forget(p)
    \/ OpenDirect /\ \E p \in Procs, f \in Called, i \in EngineInvs :
                        CallDefault(p, f, i)
    \/ OpenDirect /\ \E p \in Procs, f \in Called, i \in EngineInvs :
                        CallForceMemoize(p, f, i)
    \/ OpenDirect /\ \E p \in Procs, f \in Called, i \in EngineInvs :
                        CallForceRetrieve(p, f, i)
    \/ Settled /\ \E p \in Procs : Poll(p)
    \/ Settled /\ \E p \in Procs : SetProcessing(p)
    \/ Settled /\ \E p \in Procs, v \in FResults : CallF(p, v)
    \/ Settled /\ \E p \in Procs, e \in FExceptions : FRaise(p, e)
    \/ Settled /\ \E p \in Procs : SetResults(p)
    \/ Settled /\ Prompt /\ Tick

SpecDirect == Init /\ [][NextDirect]_vars

(***************************************************************************)
(* Key derivation on its own: two invocations of decorated functions, each *)
(* with positional arguments and with keywords in the order of the call,   *)
(* and the key that the opmode function derives for each (line 211, 224 or *)
(* 231).                                                                   *)
(***************************************************************************)
ArgLists == UNION {[1 .. n -> ArgValues] : n \in 0 .. MaxArgs}

KwItems == {<<"a", DB1>>, <<"a", DB2>>, <<"i", I2>>}

\* keyword lists of a call: no name twice
KwLists ==
    {kw \in UNION {[1 .. n -> KwItems] : n \in 0 .. Cardinality(KwNames)} :
        \A j, k \in 1 .. Len(kw) : j # k => kw[j][1] # kw[k][1]}

KeyFuncs == Memoized \cup {QueryA_b, Shared_a, Shared_b}

KeyInvs == [fn : KeyFuncs, args : ArgLists, kwargs : KwLists]

\* key = make_cache_key(f, args, kwargs) of the next invocation
DeriveKey ==
    /\ Len(kkey) < Len(kinv)
    /\ LET i == kinv[Len(kkey) + 1]
       IN kkey' = Append(kkey, make_cache_key(i.fn, i.args, i.kwargs))
    /\ UNCHANGED <<cache, call, calls, kinv>>

InitKey ==
    /\ cache = [k \in Keys |-> Absent]
    /\ call = [p \in Procs |-> Idle]
    /\ calls = 0
    /\ kinv \in [1 .. 2 -> KeyInvs]
    /\ kkey = << >>

NextKey == DeriveKey

SpecKey == InitKey /\ [][NextKey]_vars

(***************************************************************************)
(* Properties of the three modes (under Spec).                             *)
(***************************************************************************)
Done(p) == call[p].pc = "done"
DefaultCall(p) == call[p].mode = "opmode_default"

\* C1: two default-mode calls of one caller, one after the other with the
\* same function and arguments, with no expiry of the key's entry and no
\* other caller reading or writing the key from the start of the first to
\* the end of the second, execute f at most once in total and return the
\* same result, whatever f returns.
C1_CacheHitIdempotence ==
    \A p \in Procs :
        (/\ Done(p) /\ DefaultCall(p)
         /\ call[p].ret.kind = "returned"
         /\ call[p].disturbed = {}
         /\ call[p].prev # NoPrev)
        => /\ call[p].prev.nexec + call[p].nexec <= 1
           /\ call[p].ret.val = call[p].prev.val

\* the two callers of a race: s began a default-mode call on a key with no
\* entry, j began one with the same function and arguments while s was at
\* work, both calls are over, and no call in force-recompute mode wrote the
\* key meanwhile
RaceOver(s, j) ==
    /\ s # j
    /\ Done(s) /\ DefaultCall(s) /\ ~call[s].joined
    /\ Done(j) /\ DefaultCall(j) /\ call[j].joined
    /\ call[s].fn = call[j].fn /\ call[s].inv = call[j].inv
    /\ call[s].startEntry = "absent"
    /\ "forced" \notin call[s].disturbed

\* the values f returned in the calls of the callers ps
Outputs(ps) ==
    {call[r].fout.val : r \in {r \in ps : call[r].fout.kind = "returned"}}

\* C2: when two default-mode callers run concurrently with the same
\* arguments on a key that had no entry, f is executed once or twice, and
\* a caller that returns returns the output of an execution of f by one of
\* the two; a value it took from the cache came from a complete entry and
\* is neither None nor the sentinel.
C2_SingleFlight ==
    \A s, j \in Procs :
        RaceOver(s, j)
        => /\ call[s].nexec + call[j].nexec \in 1 .. 2
           /\ \A r \in {s, j} :
                 call[r].ret.kind = "returned"
                 => /\ call[r].ret.val \in Outputs({s, j})
                    /\ call[r].nexec = 0
                       => /\ call[r].lastEntry = "complete"
                          /\ call[r].ret.val \notin {None, Processing}

\* the joiner waited on the starter's sentinel and returned the starter's
\* result without executing f
C2_Waited ==
    \E s, j \in Procs :
        /\ RaceOver(s, j)
        /\ call[j].firstEntry = "inprogress"
        /\ call[j].nexec = 0
        /\ call[s].nexec = 1
        /\ call[j].ret = Returned(call[s].fout.val)

\* a call of a decorated function through mq_force_memoize
ForceMemoizeCall(p) ==
    call[p].via = "mq_force_memoize" /\ call[p].fn.memoized

\* C3: every call through mq_force_memoize executes f exactly once (so N
\* calls execute it N times), whatever entry its key had when the call
\* began, and never reads the cache.
C3_ForceMemoizeExecutes ==
    \A p \in Procs :
        ForceMemoizeCall(p)
        => /\ call[p].firstEntry = "unread"
           /\ call[p].nexec = IF call[p].pc \in {"set_results", "done"}
                              THEN 1 ELSE 0

\* a call through mq_force_memoize that found a complete entry is over,
\* and f ran in it
C3_OverComplete ==
    \E p \in Procs :
        /\ ForceMemoizeCall(p) /\ Done(p)
        /\ call[p].startEntry = "complete"
        /\ call[p].ret.kind = "returned"
        /\ call[p].nexec = 1

\* a call of a decorated function through mq_force_retrieve
ForceRetrieveCall(p) ==
    call[p].via = "mq_force_retrieve" /\ call[p].fn.memoized

\* C4: no call through mq_force_retrieve executes f, and one whose last
\* cache.get found no entry (there was none, or the in-progress entry it
\* waited on expired) ends with KeyError carrying the derived key.
C4_ForceRetrieveNeverExecutes ==
    \A p \in Procs :
        ForceRetrieveCall(p)
        => /\ call[p].nexec = 0
           /\ call[p].fout = NoRet
           /\ (Done(p) /\ call[p].lastEntry = "absent")
              => call[p].ret =
                     Raised(KeyError,
                            make_cache_key(call[p].fn, call[p].inv.args,
                                           call[p].inv.kwargs))

\* a call through mq_force_retrieve waited on an in-progress entry, that
\* entry expired, and the call failed
C4_WaitedInVain ==
    \E p \in Procs :
        /\ ForceRetrieveCall(p) /\ Done(p)
        /\ call[p].firstEntry = "inprogress"
        /\ call[p].lastEntry = "absent"
        /\ call[p].ret.exc = KeyError

\* C5: a call through mq_force_retrieve whose cache.get finds a complete
\* entry (at once or after waiting) returns the stored result and does not
\* fail, whatever value f published.
C5_ForceRetrieveReturnsCached ==
    \A p \in Procs :
        (ForceRetrieveCall(p) /\ Done(p) /\ call[p].lastEntry = "complete")
        => call[p].ret = Returned(call[p].cached)

\* C6: no step of a call through mq_force_retrieve, from its first
\* cache.get to its return or its KeyError, changes any entry of the cache
\* (the only other change of its record is the time it has waited).
C6_ForceRetrieveNoWrite ==
    [][\A p \in Procs :
          (/\ call'[p].via = "mq_force_retrieve"
           /\ call'[p].fn.memoized
           /\ call'[p] # call[p])
          => \/ cache' = cache
             \/ cache' = Aged(cache) /\ call'[p] = Later(call[p])]_vars

\* a call through mq_force_retrieve waited on an in-progress entry and
\* returned the result published meanwhile, which is still in the cache
\* with all its seconds
C6_RetrievedAfterWait ==
    \E p \in Procs :
        /\ ForceRetrieveCall(p) /\ Done(p)
        /\ call[p].firstEntry = "inprogress"
        /\ call[p].ret.kind = "returned"
        /\ cache[call[p].key] =
               [kind |-> "complete", val |-> call[p].ret.val,
                ttl |-> call[p].fn.cache_time]

\* C7: when f raises in a call in default or force-recompute mode, the
\* caller gets that exception, the step writes nothing to the cache (no
\* result, no rollback), and the entry that the call wrote, if nobody
\* overwrote it and it has not expired, is still the sentinel with the
\* seconds it had left.
C7_FailureLeavesSentinel ==
    [][\A p \in Procs :
          (/\ call[p].pc = "call_f"
           /\ call[p].mode \in {"opmode_default", "opmode_forcememoize"}
           /\ call'[p].pc = "done")
          => /\ call'[p].fout.kind = "raised"
             /\ call'[p].ret = call'[p].fout
             /\ call'[p].ret.exc \in FExceptions
             /\ cache' = cache
             /\ call[p].owns
                => /\ cache'[call[p].key].kind = "inprogress"
                   /\ cache'[call[p].key].val = Processing]_vars

\* f raised in a force-recompute call that had found a complete entry: the
\* entry is the sentinel, not the earlier result and not absent
C7_RaisedOverComplete ==
    \E p \in Procs :
        /\ Done(p)
        /\ call[p].mode = "opmode_forcememoize"
        /\ call[p].startEntry = "complete"
        /\ call[p].ret.kind = "raised"
        /\ call[p].owns
        /\ cache[call[p].key].kind = "inprogress"
        /\ cache[call[p].key].ttl = call[p].fn.timeout

KwMap(kwargs) == {kwargs[j] : j \in 1 .. Len(kwargs)}

BothDerived == Len(kkey) = 2

\* C9: two invocations of the same function with the same positional
\* arguments after filtering and the same keyword arguments get the same
\* key.
C9_KeyDeterminism ==
    BothDerived
    => ((/\ kinv[1].fn = kinv[2].fn
         /\ FilterArgs(kinv[1].args, kinv[1].fn.ignores)
                = FilterArgs(kinv[2].args, kinv[2].fn.ignores)
         /\ KwMap(kinv[1].kwargs) = KwMap(kinv[2].kwargs))
        => kkey[1] = kkey[2])

\* v stands where u stood, and differs from it at most by being another
\* value of the same ignored type
Replaced(u, v, ign) == u = v \/ (u.type \in ign /\ v.type = u.type)

\* C10: replacing argument values whose type is in the ignore set by
\* other values of the same type, positional or keyword, leaves the key
\* as it was.
C10_IgnoredValuesIgnored ==
    BothDerived
    => ((/\ kinv[1].fn = kinv[2].fn
         /\ Len(kinv[1].args) = Len(kinv[2].args)
         /\ \A j \in 1 .. Len(kinv[1].args) :
               Replaced(kinv[1].args[j], kinv[2].args[j], kinv[1].fn.ignores)
         /\ Len(kinv[1].kwargs) = Len(kinv[2].kwargs)
         /\ \A j \in 1 .. Len(kinv[1].kwargs) :
               /\ kinv[1].kwargs[j][1] = kinv[2].kwargs[j][1]
               /\ Replaced(kinv[1].kwargs[j][2], kinv[2].kwargs[j][2],
                           kinv[1].fn.ignores))
        => kkey[1] = kkey[2])

\* the invocations whose key is derived
Derived == 1 .. Len(kkey)

\* C11: an invocation of a function decorated with a key_override gets
\* exactly that value as its key, whatever its arguments; an invocation of
\* a function without one gets the md4 digest of the str of the dict of
\* uniquifier, name, module, filtered args and kwargs.
C11_OverrideKey ==
    \A n \in Derived :
        IF kinv[n].fn.key_override # NoOverride
        THEN kkey[n] = kinv[n].fn.key_override
        ELSE kkey[n] = hexdigest(Canonical(kinv[n].fn, kinv[n].args,
                                           kinv[n].kwargs))

\* two invocations of one function with a key_override, different in their
\* positional and keyword arguments, share the key
C11_SharedAcrossArguments ==
    /\ BothDerived
    /\ kinv[1].fn = Shared_a /\ kinv[2].fn = Shared_a
    /\ FilterArgs(kinv[1].args, ignores) # FilterArgs(kinv[2].args, ignores)
    /\ KwMap(kinv[1].kwargs) # KwMap(kinv[2].kwargs)
    /\ kkey[1] = "shared_key" /\ kkey[2] = "shared_key"

\* two functions with one name, declared by different modules
SameNameOtherModule(f, g) == f.name = g.name /\ f.module # g.module

\* C12: two decorated functions with the same name in different modules,
\* neither of them with a key_override, never get the same key, whatever
\* the arguments.
C12_ModuleNamespacesKeys ==
    BothDerived
    => ((/\ SameNameOtherModule(kinv[1].fn, kinv[2].fn)
         /\ kinv[1].fn.key_override = NoOverride
         /\ kinv[2].fn.key_override = NoOverride)
        => kkey[1] # kkey[2])

\* the same arguments given to the two functions named query_a: two keys
C12_SameArgumentsTwoKeys ==
    /\ BothDerived
    /\ kinv[1].fn = QueryA /\ kinv[2].fn = QueryA_b
    /\ kinv[1].args = kinv[2].args /\ kinv[1].kwargs = kinv[2].kwargs
    /\ Len(kinv[1].args) > 0
    /\ kkey[1] # kkey[2]

\* C12 as stated: two decorated functions with the same name in different
\* modules never get the same key.
C12_NeverSameKey ==
    BothDerived
    => (SameNameOtherModule(kinv[1].fn, kinv[2].fn) => kkey[1] # kkey[2])

(***************************************************************************)
(* The same program under the scheduling the code relies on: time passes   *)
(* (the store expires entries), the loop of lines 197-199 keeps reading,   *)
(* a caller goes on from one line of compute_and_cache to the next, f      *)
(* ends (it returns or raises), and a caller that is over returns.         *)
(***************************************************************************)
Fairness ==
    /\ WF_vars(Settled /\ Tick)
    /\ \A p \in Procs :
          /\ WF_vars(Forget(p))
          /\ WF_vars(Settled /\ Poll(p))
          /\ WF_vars(Settled /\ SetProcessing(p))
          /\ WF_vars(Settled /\ SetResults(p))
          /\ WF_vars(Settled /\ (\/ \E v \in FResults : CallF(p, v)
                                  \/ \E e \in FExceptions : FRaise(p, e)))

SpecFair == Init /\ [][Next]_vars /\ Fairness

(***************************************************************************)
(* Properties of waiting and of the entries (under SpecDirect and Spec).   *)
(***************************************************************************)
\* C13: a caller that has been in the loop of get_from_cache_if_possible
\* for one timeout no longer faces an in-progress entry (its next cache.get
\* ends the loop), also when other callers wrote the key while it waited.
C13_BoundedWait ==
    \A p \in Procs :
        (call[p].pc = "poll" /\ call[p].waited >= call[p].fn.timeout)
        => cache[call[p].key].kind # "inprogress"

\* the four transitions of an entry's life as the specification lists them
Lifecycle ==
    {<<"absent", "inprogress">>, <<"inprogress", "complete">>,
     <<"inprogress", "absent">>, <<"complete", "absent">>}

\* caller p is about to do the cache.set of line 177 on key k
Claims(p, k) ==
    /\ call'[p].key = k
    /\ call'[p].pc = "call_f"
    /\ call[p].pc \in {"idle", "set_processing"}

\* caller p is about to do the cache.set of line 186 on key k
Publishes(p, k) ==
    /\ call[p].key = k
    /\ call[p].pc = "set_results"
    /\ call'[p].pc = "done"

\* C14: an entry changes in three ways only.  Time passes, and the entry
\* loses seconds or, with none left, is gone: nothing else removes it.  A
\* caller writes the sentinel with the timeout (line 177), whatever the
\* entry was; onto a complete entry it is a force-recompute call, or a
\* default-mode call whose cache.get did not return a truthy value.  A
\* caller writes the result of its own execution of f with the
\* time-to-live (line 186), whatever the entry was, also when it is gone.
C14_EntryLifecycle ==
    [][\A k \in Keys :
          cache'[k] # cache[k]
          => \/ cache' = Aged(cache)
             \/ /\ cache'[k] = [kind |-> "inprogress", val |-> Processing,
                                 ttl |-> timeout]
                /\ \E p \in Procs :
                      /\ Claims(p, k)
                      /\ call'[p].fn.timeout = timeout
                      /\ cache[k].kind = "complete"
                         => \/ call'[p].mode = "opmode_forcememoize"
                            \/ /\ call'[p].mode = "opmode_default"
                               /\ ~Truthy(call'[p].cached)
             \/ /\ cache'[k].kind = "complete"
                /\ \E p \in Procs :
                      /\ Publishes(p, k)
                      /\ call[p].fout = Returned(cache'[k].val)
                      /\ call[p].nexec = 1
                      /\ cache'[k].ttl = call[p].fn.cache_time]_vars

\* a force-recompute call found a complete entry, replaced it by the
\* sentinel and then by its result
C14_Overwritten ==
    \E p \in Procs :
        /\ call[p].mode = "opmode_forcememoize"
        /\ call[p].startEntry = "complete"
        /\ call[p].pc = "done"
        /\ call[p].ret.kind = "returned"
        /\ cache[call[p].key].kind = "complete"

\* C14 as stated: the kind of an entry changes by the four transitions of
\* the specification's lifecycle only.
C14_FourTransitionsOnly ==
    [][\A k \in Keys :
          cache'[k].kind # cache[k].kind
          => <<cache[k].kind, cache'[k].kind>> \in Lifecycle]_vars

\* C15: a default-mode caller whose first cache.get read the sentinel of
\* another default-mode caller, which then published the result of its
\* execution before any entry of the key expired, returns that result and
\* does not execute f, whatever the result is.
C15_WaiterConverges ==
    \A s, j \in Procs :
        (/\ RaceOver(s, j)
         /\ call[j].firstEntry = "inprogress"
         /\ call[s].fout.kind = "returned"
         /\ "expired" \notin call[s].disturbed \cup call[j].disturbed)
        => /\ call[j].nexec = 0
           /\ call[j].ret = Returned(call[s].fout.val)

\* no caller is between its sentinel write and the end of its
\* compute_and_cache on key k
Abandoned(k) ==
    /\ cache[k].kind = "inprogress"
    /\ \A q \in Procs :
          call[q].key = k => call[q].pc \notin {"call_f", "set_results"}

\* default-mode caller p is in the loop of line 197 on an abandoned
\* sentinel
WaitsInVain(p) ==
    /\ DefaultCall(p)
    /\ call[p].pc = "poll"
    /\ Abandoned(call[p].key)

\* default-mode caller p, which read the sentinel first, has left the loop
\* on a miss
Resumed(p) ==
    /\ DefaultCall(p)
    /\ call[p].pc = "set_processing"
    /\ call[p].firstEntry = "inprogress"

\* p executed f once and, if f returned, has just published the result
Recomputed(p) ==
    /\ Done(p) /\ DefaultCall(p)
    /\ call[p].nexec = 1
    /\ call[p].fout.kind = "returned"
       => /\ call[p].ret = call[p].fout
          /\ cache[call[p].key] = [kind |-> "complete",
                                   val |-> call[p].fout.val,
                                   ttl |-> call[p].fn.cache_time]

\* C16: an abandoned sentinel (f raised after line 177) does not stay: the
\* entry expires or is written by another call; a default-mode caller
\* polling on it leaves the loop; and a default-mode caller that leaves
\* the loop on a miss executes f once and, if f returns, publishes the
\* result as a complete entry.
C16_SelfHealing ==
    /\ \A k \in Keys : Abandoned(k) ~> ~Abandoned(k)
    /\ \A p \in Procs : WaitsInVain(p) ~> (call[p].pc # "poll")
    /\ \A p \in Procs : Resumed(p) ~> Recomputed(p)

\* a caller that waited on a sentinel whose writer's f raised, saw the
\* entry expire, executed f itself and published
C16_Healed ==
    \E p \in Procs :
        /\ Recomputed(p)
        /\ call[p].firstEntry = "inprogress"
        /\ call[p].lastEntry = "absent"
        /\ "expired" \in call[p].disturbed
        /\ call[p].fout.kind = "returned"
        /\ \A q \in Procs \ {p} : ~Active(q)

\* C17: a caller of a decorated function gets to the call of f by its own
\* cache.set(key, 'Processing', timeout) and in no other way; f is executed
\* from there only; when f returns the caller's next step is its
\* cache.set(key, results, cache_time) with what f returned, and when f
\* raises it writes nothing; and every result written is the output of the
\* writer's own execution of f in that call.
C17_SentinelBeforeExecution ==
    [][/\ \A p \in Procs :
             LET a == call[p]
                 b == call'[p]
             IN /\ (b.pc = "call_f" /\ a.pc # "call_f" /\ b.fn.memoized)
                   => /\ a.pc \in {"idle", "set_processing"}
                      /\ b.nexec = 0
                      /\ cache'[b.key] = [kind |-> "inprogress",
                                          val |-> Processing,
                                          ttl |-> b.fn.timeout]
                /\ b.nexec > a.nexec
                   => /\ a.pc = "call_f"
                      /\ b.nexec = a.nexec + 1
                      /\ cache' = cache
                /\ (a.pc = "call_f" /\ b.pc # "call_f" /\ a.fn.memoized)
                   => IF b.fout.kind = "returned"
                      THEN b.pc = "set_results" /\ b.results = b.fout.val
                      ELSE b.pc = "done" /\ b.ret.kind = "raised"
                /\ (a.pc = "set_results" /\ b.pc # "set_results")
                   => /\ b.pc = "done"
                      /\ b.ret = a.fout
                      /\ cache'[a.key] = [kind |-> "complete",
                                          val |-> a.fout.val,
                                          ttl |-> a.fn.cache_time]
       /\ \A k \in Keys :
             (cache'[k] # cache[k] /\ cache'[k].kind = "complete"
              /\ cache' # Aged(cache))
             => \E p \in Procs :
                   /\ call[p].pc = "set_results"
                   /\ call[p].key = k
                   /\ call[p].nexec = 1
                   /\ call[p].fout = Returned(cache'[k].val)]_vars

\* a default-mode miss and a force-recompute call, each after its sentinel
\* write and its execution of f, and before its result write
C17_BothExecuted ==
    \E p, q \in Procs :
        /\ DefaultCall(p)
        /\ call[p].startEntry = "absent"
        /\ call[p].pc = "set_results"
        /\ call[p].nexec = 1
        /\ call[q].mode = "opmode_forcememoize"
        /\ call[q].pc = "set_results"
        /\ call[q].nexec = 1
        /\ call[q].key = call[p].key
        /\ cache[call[q].key].kind = "inprogress"

Consumed(p) ==
    /\ Done(p)
    /\ DefaultCall(p) \/ ForceRetrieveCall(p)
    /\ call[p].startEntry = "complete"
    /\ call[p].firstEntry = "complete"
    /\ call[p].lastEntry = "complete"
    /\ call[p].disturbed = {}

\* C19: callers of one function with the same arguments have the same key
\* whatever their modes, and a default-mode or force-retrieve call that
\* finds the published result of an earlier call returns that result and
\* does not execute f.
C19_RoundTrip ==
    /\ \A p, q \in Procs :
          (/\ call[p].fn.memoized /\ call[q].fn.memoized
           /\ call[p].pc # "idle" /\ call[q].pc # "idle"
           /\ call[p].fn = call[q].fn /\ call[p].inv = call[q].inv)
          => call[p].key = call[q].key
    /\ \A p \in Procs :
          Consumed(p)
          => /\ call[p].nexec = 0
             /\ call[p].ret = Returned(call[p].cached)

\* C20: a caller is in the loop of line 197 only if its latest cache.get
\* read an entry written as the sentinel (line 177), never one written as
\* a result (line 186), whatever f returned.
C20_SentinelDistinguishable ==
    \A p \in Procs :
        call[p].pc = "poll" => call[p].lastEntry = "inprogress"

====
